---- MODULE Spec2Model ----
(***************************************************************************)
(* Model of the native backend of the AIO desktop shell                    *)
(* (src/frontend/src-tauri/src/main.rs): the launch_game command and the   *)
(* process entry point main.                                               *)
(*                                                                         *)
(* Strings are TLA+ strings; format! is concatenation (\o).  Option<T> is   *)
(* a sequence of length 0 (None) or 1 (Some).  Result<String, String> is   *)
(* a record [ok, val].                                                     *)
(***************************************************************************)
EXTENDS Integers, Sequences, FiniteSets, TLC

VARIABLES os, argv, phase, events, focusRequests, secondLog, last, procs

vars == <<os, argv, phase, events, focusRequests, secondLog, last, procs>>

(***************************************************************************)
(* Bounds                                                                  *)
(***************************************************************************)
MaxProcs == 2
MaxSecond == 1

(***************************************************************************)
(* Value constructors                                                      *)
(***************************************************************************)
None == <<>>
Some(s) == <<s>>
Ok(s) == [ok |-> TRUE, val |-> s]
Err(s) == [ok |-> FALSE, val |-> s]

(***************************************************************************)
(* Input domains                                                           *)
(***************************************************************************)
OSes == {"windows", "macos", "linux", "other"}
Platforms == {"steam", "epic", "gog", "origin", "Steam"}
Ids == {None, Some("570")}
AppNames == {None, Some("a&b/%41?c=d")}
SpawnResults == {Ok(""), Err("No such file or directory (os error 2)")}
ArgLists == { <<"aio">>,
              <<"aio", "aio://open/123">>,
              <<"aio", "--flag", "aio://open/123", "aio://open/456">> }
ExitStatuses == {"exit0", "exit1"}

(***************************************************************************)
(* launch_game                                                             *)
(***************************************************************************)
\* Option::or
Or(a, b) == IF a # None THEN a ELSE b

ResolveIdentifierIdFirst(id, app_name) ==
    LET o == Or(id, app_name)
    IN  IF o = None THEN Err("Missing game identifier") ELSE Ok(o[1])

ResolveIdentifierDefault(id, app_name) ==
    LET o == Or(app_name, id)
    IN  IF o = None THEN Ok("") ELSE Ok(o[1])

\* let identifier = app_name.clone().or(id.clone()).ok_or("Missing game identifier")?;
ResolveIdentifier(id, app_name) ==
    LET o == Or(app_name, id)
    IN  IF o = None THEN Err("Missing game identifier") ELSE Ok(o[1])

\* #[cfg(target_os = "windows")] match platform.as_str()
WindowsUri(platform, identifier) ==
    CASE platform = "steam" -> Ok("steam://rungameid/" \o identifier)
      [] platform = "epic" ->
            Ok("com.epicgames.launcher://apps/" \o identifier
                   \o "?action=launch&silent=true")
      [] platform = "gog" -> Ok("goggalaxy://openGameView/" \o identifier)
      [] OTHER -> Err("Unsupported platform: " \o platform)

MacosUriSilent(platform, identifier) ==
    CASE platform = "steam" -> Ok("steam://rungameid/" \o identifier)
      [] platform = "epic" ->
            Ok("com.epicgames.launcher://apps/" \o identifier
                   \o "?action=launch&silent=true")
      [] platform = "gog" -> Ok("goggalaxy://openGameView/" \o identifier)
      [] OTHER -> Err("Unsupported platform: " \o platform)

\* #[cfg(target_os = "macos")] match platform.as_str()
MacosUri(platform, identifier) ==
    CASE platform = "steam" -> Ok("steam://rungameid/" \o identifier)
      [] platform = "epic" ->
            Ok("com.epicgames.launcher://apps/" \o identifier \o "?action=launch")
      [] platform = "gog" -> Ok("goggalaxy://openGameView/" \o identifier)
      [] OTHER -> Err("Unsupported platform: " \o platform)

LinuxUriGeneric(platform, identifier) ==
    CASE platform = "steam" -> Ok("steam://rungameid/" \o identifier)
      [] platform = "epic" -> Err("Epic Games not well supported on Linux")
      [] platform = "gog" -> Err("GOG Galaxy not available on Linux")
      [] OTHER -> Err("Unsupported platform")

LinuxUriEpic(platform, identifier) ==
    CASE platform = "steam" -> Ok("steam://rungameid/" \o identifier)
      [] platform = "epic" ->
            Ok("com.epicgames.launcher://apps/" \o identifier \o "?action=launch")
      [] platform = "gog" -> Err("GOG Galaxy not available on Linux")
      [] OTHER -> Err("Unsupported platform: " \o platform)

\* #[cfg(target_os = "linux")] match platform.as_str()
LinuxUri(platform, identifier) ==
    CASE platform = "steam" -> Ok("steam://rungameid/" \o identifier)
      [] platform = "epic" -> Err("Epic Games not well supported on Linux")
      [] platform = "gog" -> Err("GOG Galaxy not available on Linux")
      [] OTHER -> Err("Unsupported platform: " \o platform)

\* the match of the cfg block compiled for the target
UriFor(o, platform, identifier) ==
    CASE o = "windows" -> WindowsUri(platform, identifier)
      [] o = "macos" -> MacosUri(platform, identifier)
      [] o = "linux" -> LinuxUri(platform, identifier)

\* Command::new(..).args(..) of the cfg block compiled for the target
OpenCommand(o, uri) ==
    CASE o = "windows" -> [program |-> "cmd", args |-> <<"/C", "start", "", uri>>]
      [] o = "macos" -> [program |-> "open", args |-> <<uri>>]
      [] o = "linux" -> [program |-> "xdg-open", args |-> <<uri>>]

\* .spawn().map_err(|e| format!("Failed to start game: {}", e))?; Ok(format!(..))
Outcome(platform, spawnResult) ==
    IF spawnResult.ok
    THEN Ok("Started " \o platform \o " game")
    ELSE Err("Failed to start game: " \o spawnResult.val)

Returned(ret, uri, spawns, started) ==
    [ret |-> ret, uri |-> uri, spawns |-> spawns, started |-> started]

LaunchGameNoOsCheck(o, platform, id, app_name, spawnResult) ==
    LET identifier == ResolveIdentifier(id, app_name)
        t == IF o = "other" THEN "linux" ELSE o
    IN  IF ~identifier.ok THEN Returned(identifier, None, <<>>, FALSE)
        ELSE LET uri == UriFor(t, platform, identifier.val)
             IN  IF ~uri.ok THEN Returned(uri, None, <<>>, FALSE)
                 ELSE Returned(Outcome(platform, spawnResult), Some(uri.val),
                               <<OpenCommand(t, uri.val)>>, spawnResult.ok)

LaunchGameIgnoreSpawnError(o, platform, id, app_name, spawnResult) ==
    LET identifier == ResolveIdentifier(id, app_name)
    IN  IF ~identifier.ok THEN Returned(identifier, None, <<>>, FALSE)
        ELSE IF o = "other"
        THEN Returned(Err("Unsupported operating system"), None, <<>>, FALSE)
        ELSE LET uri == UriFor(o, platform, identifier.val)
             IN  IF ~uri.ok THEN Returned(uri, None, <<>>, FALSE)
                 ELSE Returned(Ok("Started " \o platform \o " game"), Some(uri.val),
                               <<OpenCommand(o, uri.val)>>, spawnResult.ok)

LaunchGameRetry(o, platform, id, app_name, spawnResult) ==
    LET identifier == ResolveIdentifier(id, app_name)
    IN  IF ~identifier.ok THEN Returned(identifier, None, <<>>, FALSE)
        ELSE IF o = "other"
        THEN Returned(Err("Unsupported operating system"), None, <<>>, FALSE)
        ELSE LET uri == UriFor(o, platform, identifier.val)
             IN  IF ~uri.ok THEN Returned(uri, None, <<>>, FALSE)
                 ELSE Returned(Outcome(platform, spawnResult), Some(uri.val),
                               IF spawnResult.ok
                               THEN <<OpenCommand(o, uri.val)>>
                               ELSE <<OpenCommand(o, uri.val), OpenCommand(o, uri.val)>>,
                               spawnResult.ok)

\* fn launch_game(platform, id, app_name) -> Result<String, String>
\*   ret     the value returned to the caller
\*   uri     the URI built by the match, if one was built
\*   spawns  the commands on which spawn() was called, in order
\*   started whether a child process came into existence
LaunchGame(o, platform, id, app_name, spawnResult) ==
    LET identifier == ResolveIdentifier(id, app_name)
    IN  IF ~identifier.ok THEN Returned(identifier, None, <<>>, FALSE)
        ELSE IF o = "other"
        THEN Returned(Err("Unsupported operating system"), None, <<>>, FALSE)
        ELSE LET uri == UriFor(o, platform, identifier.val)
             IN  IF ~uri.ok THEN Returned(uri, None, <<>>, FALSE)
                 ELSE Returned(Outcome(platform, spawnResult), Some(uri.val),
                               <<OpenCommand(o, uri.val)>>, spawnResult.ok)

(***************************************************************************)
(* State machine                                                           *)
(***************************************************************************)
NoCall ==
    [called |-> FALSE, platform |-> "", id |-> None, app_name |-> None,
     spawnResult |-> Ok(""), out |-> Returned(Ok(""), None, <<>>, FALSE),
     child |-> 0]

Init ==
    /\ os \in OSes
    /\ argv \in ArgLists
    /\ phase = "init"
    /\ events = <<>>
    /\ focusRequests = 0
    /\ secondLog = <<>>
    /\ last = NoCall
    /\ procs = <<>>

\* fn main: Builder::default().invoke_handler(..).run(..)
Main ==
    /\ phase = "init"
    /\ phase' = "running"
    /\ UNCHANGED <<os, argv, events, focusRequests, secondLog, last, procs>>

\* the UI layer invokes the launch_game command
Launch ==
    /\ phase = "running"
    /\ \E platform \in Platforms, id \in Ids, app_name \in AppNames,
          spawnResult \in SpawnResults :
          LET out == LaunchGame(os, platform, id, app_name, spawnResult)
          IN  /\ out.started => Len(procs) < MaxProcs
              /\ procs' = IF out.started THEN Append(procs, "running") ELSE procs
              /\ last' = [called |-> TRUE, platform |-> platform, id |-> id,
                          app_name |-> app_name, spawnResult |-> spawnResult,
                          out |-> out,
                          child |-> IF out.started THEN Len(procs) + 1 ELSE 0]
    /\ UNCHANGED <<os, argv, phase, events, focusRequests, secondLog>>

\* a spawned child terminates on its own; the Child handle was dropped
ChildExit ==
    /\ \E i \in 1..Len(procs), s \in ExitStatuses :
          /\ procs[i] = "running"
          /\ procs' = [procs EXCEPT ![i] = s]
    /\ UNCHANGED <<os, argv, phase, events, focusRequests, secondLog, last>>

\* the application is started again while this instance runs; main registers
\* no interceptor, so nothing reaches the running instance
SecondLaunch ==
    /\ phase = "running"
    /\ Len(secondLog) < MaxSecond
    /\ \E a \in ArgLists : secondLog' = Append(secondLog, a)
    /\ UNCHANGED <<os, argv, phase, events, focusRequests, last, procs>>

Next == Main \/ Launch \/ ChildExit \/ SecondLaunch

Spec == Init /\ [][Next]_vars

TypeOK ==
    /\ os \in OSes
    /\ phase \in {"init", "running"}
    /\ Len(procs) <= MaxProcs
    /\ Len(secondLog) <= MaxSecond
    /\ focusRequests \in Nat

(***************************************************************************)
(* Vocabulary of the properties                                            *)
(***************************************************************************)
KnownTags == {"steam", "epic", "gog"}
SupportedOSes == {"windows", "macos", "linux"}

\* t occurs in s as a contiguous substring
Contains(s, t) ==
    \E i \in 1..(Len(s) - Len(t) + 1) : SubSeq(s, i, i + Len(t) - 1) = t

\* the table of URI templates: prefix and suffix around the identifier
Templates ==
    { [os |-> o, platform |-> "steam", pre |-> "steam://rungameid/", post |-> ""]
        : o \in SupportedOSes }
    \cup
    { [os |-> "windows", platform |-> "epic",
       pre |-> "com.epicgames.launcher://apps/", post |-> "?action=launch&silent=true"],
      [os |-> "macos", platform |-> "epic",
       pre |-> "com.epicgames.launcher://apps/", post |-> "?action=launch"] }
    \cup
    { [os |-> o, platform |-> "gog", pre |-> "goggalaxy://openGameView/", post |-> ""]
        : o \in {"windows", "macos"} }

HasTemplate(o, platform) ==
    \E row \in Templates : row.os = o /\ row.platform = platform

Resolvable == last.id # None \/ last.app_name # None

StartsWith(s, prefix) ==
    Len(s) >= Len(prefix) /\ SubSeq(s, 1, Len(prefix)) = prefix

HasDeepLink(args) == \E i \in 1..Len(args) : StartsWith(args[i], "aio://")

FirstDeepLink(args) ==
    args[CHOOSE i \in 1..Len(args) :
            /\ StartsWith(args[i], "aio://")
            /\ \A j \in 1..(i - 1) : ~StartsWith(args[j], "aio://")]

IsStartup(e) == e.source = "startup"
IsSecond(e) == e.source = "second-instance"

(***************************************************************************)
(* Properties                                                              *)
(***************************************************************************)

\* C1: for every platform/OS cell of the template table, a call with a
\* resolvable identifier builds exactly prefix + identifier + suffix, the
\* identifier copied verbatim, and hands that string to the open command as
\* its last argument.
C1_UriMatchesTemplate ==
    (last.called /\ Resolvable) =>
        \A row \in Templates :
            (row.os = os /\ row.platform = last.platform) =>
                LET identifier == IF last.app_name # None
                                  THEN last.app_name[1] ELSE last.id[1]
                    uri == row.pre \o identifier \o row.post
                IN  /\ last.out.uri = Some(uri)
                    /\ Len(last.out.spawns) = 1
                    /\ last.out.spawns[1].args[Len(last.out.spawns[1].args)] = uri

C1_Witness ==
    /\ last.called
    /\ os = "macos"
    /\ last.platform = "epic"
    /\ last.app_name = Some("a&b/%41?c=d")
    /\ last.out.uri = Some("com.epicgames.launcher://apps/a&b/%41?c=d?action=launch")

\* C2: the identifier placed in the URI is app_name when both are given
\* (never id), id when only id is given, app_name when only app_name is given.
C2_AppNamePreferred ==
    (last.called /\ last.out.uri # None) =>
        \E row \in Templates :
            /\ row.os = os
            /\ row.platform = last.platform
            /\ (last.id # None /\ last.app_name # None) =>
                  /\ last.out.uri[1] = row.pre \o last.app_name[1] \o row.post
                  /\ last.out.uri[1] # row.pre \o last.id[1] \o row.post
            /\ (last.id # None /\ last.app_name = None) =>
                  last.out.uri[1] = row.pre \o last.id[1] \o row.post
            /\ (last.id = None /\ last.app_name # None) =>
                  last.out.uri[1] = row.pre \o last.app_name[1] \o row.post

C2_Witness ==
    /\ last.called
    /\ last.id = Some("570")
    /\ last.app_name = Some("a&b/%41?c=d")
    /\ last.out.uri = Some("steam://rungameid/a&b/%41?c=d")

\* C3: a call with neither id nor app_name fails with the missing-identifier
\* error, builds no URI and spawns nothing, for every tag and on every OS.
C3_MissingIdentifierFirst ==
    (last.called /\ last.id = None /\ last.app_name = None) =>
        /\ last.out.ret = Err("Missing game identifier")
        /\ last.out.uri = None
        /\ last.out.spawns = <<>>
        /\ last.child = 0

C3_Witness ==
    /\ last.called
    /\ last.id = None
    /\ last.app_name = None
    /\ os = "other"
    /\ last.platform = "origin"
    /\ ~last.out.ret.ok

\* C4 as stated: on Windows, macOS and Linux every call with a tag outside
\* the known set fails with a message containing the tag.
C4_UnknownTagNamed ==
    (last.called /\ os \in SupportedOSes /\ last.platform \notin KnownTags) =>
        /\ ~last.out.ret.ok
        /\ Contains(last.out.ret.val, last.platform)

\* C4 amended: on Windows, macOS and Linux a call with a tag outside the
\* known set fails; the message contains the tag when an identifier was
\* supplied, and is the missing-identifier error when none was.
C4_UnknownTagNamedIfResolvable ==
    (last.called /\ os \in SupportedOSes /\ last.platform \notin KnownTags) =>
        /\ ~last.out.ret.ok
        /\ last.out.spawns = <<>>
        /\ Resolvable => Contains(last.out.ret.val, last.platform)
        /\ ~Resolvable => last.out.ret.val = "Missing game identifier"

C4_Witness ==
    /\ last.called
    /\ os = "linux"
    /\ last.platform = "origin"
    /\ last.id = Some("570")
    /\ last.out.ret = Err("Unsupported platform: origin")

\* C5 as stated: epic on Linux fails with a message mentioning "Epic" and
\* "Linux" for every combination of id and app_name, and spawns nothing.
C5_EpicOnLinux ==
    (last.called /\ os = "linux" /\ last.platform = "epic") =>
        /\ ~last.out.ret.ok
        /\ Contains(last.out.ret.val, "Epic")
        /\ Contains(last.out.ret.val, "Linux")
        /\ last.out.spawns = <<>>

\* C5 amended: epic on Linux always fails and spawns nothing; the message
\* mentions "Epic" and "Linux" when an identifier was supplied, and is the
\* missing-identifier error when none was.
C5_EpicOnLinuxIfResolvable ==
    (last.called /\ os = "linux" /\ last.platform = "epic") =>
        /\ ~last.out.ret.ok
        /\ last.out.spawns = <<>>
        /\ last.child = 0
        /\ Resolvable => /\ Contains(last.out.ret.val, "Epic")
                         /\ Contains(last.out.ret.val, "Linux")
        /\ ~Resolvable => last.out.ret.val = "Missing game identifier"

C5_Witness ==
    /\ last.called
    /\ os = "linux"
    /\ last.platform = "epic"
    /\ last.app_name = Some("a&b/%41?c=d")
    /\ last.out.ret = Err("Epic Games not well supported on Linux")

\* C6 as stated: on any other operating system every call returns the
\* unsupported-operating-system error and spawns nothing.
C6_UnsupportedOs ==
    (last.called /\ os \notin SupportedOSes) =>
        /\ last.out.ret = Err("Unsupported operating system")
        /\ last.out.spawns = <<>>

\* C6 amended: on any other operating system every call fails and spawns
\* nothing; the error is the unsupported-operating-system error when an
\* identifier was supplied, and the missing-identifier error when none was.
C6_UnsupportedOsIfResolvable ==
    (last.called /\ os \notin SupportedOSes) =>
        /\ ~last.out.ret.ok
        /\ last.out.spawns = <<>>
        /\ last.child = 0
        /\ Resolvable => last.out.ret = Err("Unsupported operating system")
        /\ ~Resolvable => last.out.ret = Err("Missing game identifier")

C6_Witness ==
    /\ last.called
    /\ os = "other"
    /\ last.platform = "steam"
    /\ last.id = Some("570")
    /\ last.out.ret = Err("Unsupported operating system")

\* the result of a call that reached spawn() is decided by spawn() alone
C7_ResultFromSpawn ==
    (last.called /\ last.out.spawns # <<>>) =>
        /\ last.spawnResult.ok =>
              /\ last.out.ret = Ok("Started " \o last.platform \o " game")
              /\ last.child \in 1..Len(procs)
        /\ ~last.spawnResult.ok =>
              /\ last.out.ret = Err("Failed to start game: " \o last.spawnResult.val)
              /\ last.child = 0

\* a call that started a child returns while the child is still running, and
\* nothing the child does afterwards alters the returned result
C7_NoWait ==
    /\ (last' # last /\ last'.child > 0) => procs'[last'.child] = "running"
    /\ (procs' # procs /\ Len(procs') = Len(procs)) => last' = last

\* C7: launch_game is fire-and-forget: success "Started <platform> game" is
\* returned as soon as spawn succeeds, the child is neither awaited nor
\* inspected, and a failed spawn yields an error wrapping the OS message.
C7_FireAndForget == [](C7_ResultFromSpawn) /\ [][C7_NoWait]_vars

C7_Witness ==
    /\ last.called
    /\ last.child > 0
    /\ procs[last.child] = "exit1"
    /\ last.out.ret = Ok("Started steam game")

\* C8: once the process has started, the deep-link events emitted by the
\* startup scan are exactly the first argument beginning with "aio://", if
\* there is one, and none otherwise.
C8_StartupDeepLink ==
    phase = "running" =>
        SelectSeq(events, IsStartup) =
            IF HasDeepLink(argv)
            THEN << [source |-> "startup", payload |-> FirstDeepLink(argv)] >>
            ELSE << >>

\* C9: every second launch whose argument vector holds a deep link has
\* produced exactly one event carrying the first such argument and exactly
\* one focus request; a second launch without one has produced neither.
C9_SecondInstanceDeepLink ==
    LET matching == SelectSeq(secondLog, HasDeepLink)
    IN  /\ SelectSeq(events, IsSecond) =
               [i \in 1..Len(matching) |->
                   [source |-> "second-instance",
                    payload |-> FirstDeepLink(matching[i])]]
        /\ focusRequests = Len(matching)

\* C10: a call attempts at most one spawn; it attempts one exactly when an
\* identifier resolves and the tag has a template on this OS; the command is
\* the OS's open-URI command with the built URI as its argument.
C10_SingleSpawn ==
    last.called =>
        /\ Len(last.out.spawns) <= 1
        /\ Len(last.out.spawns) = 1 <=> (Resolvable /\ HasTemplate(os, last.platform))
        /\ Len(last.out.spawns) = 1 =>
              LET cmd == last.out.spawns[1]
                  n == Len(cmd.args)
              IN  /\ last.out.uri # None
                  /\ cmd.args[n] = last.out.uri[1]
                  /\ os = "windows" =>
                        cmd.program = "cmd" /\ n = 4
                            /\ cmd.args[1] = "/C" /\ cmd.args[2] = "start"
                  /\ os = "macos" => cmd.program = "open" /\ n = 1
                  /\ os = "linux" => cmd.program = "xdg-open" /\ n = 1
        /\ last.child > 0 => Len(last.out.spawns) = 1

C10_Witness ==
    /\ last.called
    /\ os = "windows"
    /\ last.platform = "gog"
    /\ ~last.spawnResult.ok
    /\ last.out.spawns =
          << [program |-> "cmd",
              args |-> <<"/C", "start", "", "goggalaxy://openGameView/570">>] >>
====
